---------------------------- MODULE Spec2Model ----------------------------
(***************************************************************************)
(* Model of the MCP example server (src/main.go): process startup with its *)
(* four registrations, the hello tool and the bitcoin_price tool with      *)
(* getBitcoinPrice (HTTP GET, body read, JSON decoding, currency switch).  *)
(*                                                                         *)
(* Strings the code inspects character by character (currency codes) are   *)
(* sequences of one-character strings.  A text built by fmt.Sprintf is the  *)
(* sequence of its fragments: format literals as they stand in the source, *)
(* inserted values character by character.  Prices are float64 values that *)
(* are multiples of 1/Scale (exactly representable), held as the integer   *)
(* number of such units.                                                   *)
(***************************************************************************)
EXTENDS Integers, Sequences, FiniteSets, TLC

\* ------------------------------------------------------------------ bounds
\* Number of call slots (calls that may be in flight at once).
MaxCalls == 2
\* The clock runs over 0..MaxClock seconds.
MaxClock == 1

Calls == 1..MaxCalls

\* ------------------------------------------------------------------ strings
NoErr == << >>

DigitChar == <<"0", "1", "2", "3", "4", "5", "6", "7", "8", "9">>

RECURSIVE NatToStr(_)
\* %d of a natural number, most significant digit first.
NatToStr(n) ==
    IF n < 10 THEN <<DigitChar[n + 1]>>
    ELSE NatToStr(n \div 10) \o <<DigitChar[(n % 10) + 1]>>

\* The ten currency fields of CoinGeckoResponse.Bitcoin.
Codes == {"USD", "EUR", "GBP", "JPY", "AUD", "CAD", "CHF", "CNY", "KRW", "RUB"}

\* The json tag of each field.
JsonTag ==
    [USD |-> "usd", EUR |-> "eur", GBP |-> "gbp", JPY |-> "jpy", AUD |-> "aud",
     CAD |-> "cad", CHF |-> "chf", CNY |-> "cny", KRW |-> "krw", RUB |-> "rub"]

Tags == {JsonTag[k] : k \in Codes}

\* The zero value of CoinGeckoResponse.
ZeroResp == [Bitcoin |-> [k \in Codes |-> 0]]

\* ------------------------------------------------------------------ JSON
\* A JSON value at a currency key: a number (in 1/Scale units), null, a string, or
\* no such key.
JNum(n) == [t |-> "num", n |-> n]
JNull == [t |-> "null", n |-> 0]
JStr == [t |-> "str", n |-> 0]
JAbsent == [t |-> "absent", n |-> 0]

\* A response body: kind is "malformed" (not JSON), "array" (JSON, but not an
\* object) or "object"; bitcoin says what the "bitcoin" key holds ("absent",
\* "null", "string" or "object"); fields are the values inside that object.
NoFields == [g \in Tags |-> JAbsent]
Doc(kind, bitcoin, fields) == [kind |-> kind, bitcoin |-> bitcoin, fields |-> fields]
NoDoc == Doc("none", "absent", NoFields)

\* json.Unmarshal(body, &coinGeckoResp) on a zero-valued coinGeckoResp: the
\* error (NoErr for nil) and the decoded value.  Keys the struct does not name
\* are ignored; a missing or null key leaves the field at its zero value; a
\* value of the wrong JSON type is an UnmarshalTypeError.
UnmarshalDisallowMissing(doc) ==
    IF doc.kind = "malformed"
    THEN [err |-> <<"invalid character '<' looking for beginning of value">>, val |-> ZeroResp]
    ELSE IF doc.kind = "array" \/ doc.bitcoin = "string"
              \/ (doc.bitcoin = "object" /\ \E g \in Tags : doc.fields[g].t = "str")
    THEN [err |-> <<"json: cannot unmarshal value into Go struct field">>, val |-> ZeroResp]
    ELSE IF doc.bitcoin # "object" \/ \E g \in Tags : doc.fields[g].t # "num"
    THEN [err |-> <<"json: missing field">>, val |-> ZeroResp]
    ELSE [err |-> NoErr,
          val |-> [Bitcoin |-> [k \in Codes |-> doc.fields[JsonTag[k]].n]]]

Unmarshal(doc) ==
    IF doc.kind = "malformed"
    THEN [err |-> <<"invalid character '<' looking for beginning of value">>, val |-> ZeroResp]
    ELSE IF doc.kind = "array" \/ doc.bitcoin = "string"
              \/ (doc.bitcoin = "object" /\ \E g \in Tags : doc.fields[g].t = "str")
    THEN [err |-> <<"json: cannot unmarshal value into Go struct field">>, val |-> ZeroResp]
    ELSE IF doc.bitcoin # "object"
    THEN [err |-> NoErr, val |-> ZeroResp]
    ELSE [err |-> NoErr,
          val |-> [Bitcoin |-> [k \in Codes |->
                      IF doc.fields[JsonTag[k]].t = "num"
                      THEN doc.fields[JsonTag[k]].n ELSE 0]]]


\* ------------------------------------------------------------------ switch
\* The case labels of the switch on currency, by the field each case reads.
CaseLabelsUpperOnly ==
    [USD |-> {<<"U", "S", "D">>}, EUR |-> {<<"E", "U", "R">>},
     GBP |-> {<<"G", "B", "P">>}, JPY |-> {<<"J", "P", "Y">>},
     AUD |-> {<<"A", "U", "D">>}, CAD |-> {<<"C", "A", "D">>},
     CHF |-> {<<"C", "H", "F">>}, CNY |-> {<<"C", "N", "Y">>},
     KRW |-> {<<"K", "R", "W">>}, RUB |-> {<<"R", "U", "B">>}]

CaseLabels ==
    [USD |-> {<<"U", "S", "D">>, <<"u", "s", "d">>},
     EUR |-> {<<"E", "U", "R">>, <<"e", "u", "r">>},
     GBP |-> {<<"G", "B", "P">>, <<"g", "b", "p">>},
     JPY |-> {<<"J", "P", "Y">>, <<"j", "p", "y">>},
     AUD |-> {<<"A", "U", "D">>, <<"a", "u", "d">>},
     CAD |-> {<<"C", "A", "D">>, <<"c", "a", "d">>},
     CHF |-> {<<"C", "H", "F">>, <<"c", "h", "f">>},
     CNY |-> {<<"C", "N", "Y">>, <<"c", "n", "y">>},
     KRW |-> {<<"K", "R", "W">>, <<"k", "r", "w">>},
     RUB |-> {<<"R", "U", "B">>, <<"r", "u", "b">>}]

\* The field each case assigns to price.
CaseFieldSwapped ==
    [USD |-> "USD", EUR |-> "USD", GBP |-> "GBP", JPY |-> "JPY", AUD |-> "AUD",
     CAD |-> "CAD", CHF |-> "CHF", CNY |-> "CNY", KRW |-> "KRW", RUB |-> "RUB"]

CaseField ==
    [USD |-> "USD", EUR |-> "EUR", GBP |-> "GBP", JPY |-> "JPY", AUD |-> "AUD",
     CAD |-> "CAD", CHF |-> "CHF", CNY |-> "CNY", KRW |-> "KRW", RUB |-> "RUB"]

\* fmt.Errorf(format, arg): the format's literal followed by the argument.
Errorf(literal, arg) == <<literal>> \o arg

\* The switch of getBitcoinPrice and its return: the case whose label equals
\* currency assigns its field to price; default returns the error.
Switch(currency, resp) ==
    IF \E k \in Codes : currency \in CaseLabels[k]
    THEN LET k == CHOOSE k \in Codes : currency \in CaseLabels[k]
         IN  [price |-> resp.Bitcoin[CaseField[k]], err |-> NoErr]
    ELSE [price |-> 0, err |-> Errorf("unsupported currency: ", currency)]

\* ------------------------------------------------------------------ formats
\* Prices are counted in units of 1/Scale.
Scale == 2 ^ 8

\* The hundredths %.2f prints for the float64 n/Scale: the exact value
\* rounded to the nearest hundredth, an exact tie to the even one (strconv).
Cents(n) ==
    LET mag == IF n < 0 THEN -n ELSE n
        q == (100 * mag) \div Scale
        r == (100 * mag) % Scale
    IN  IF 2 * r < Scale THEN q
        ELSE IF 2 * r > Scale THEN q + 1
        ELSE IF q % 2 = 0 THEN q ELSE q + 1

\* %.2f of the float64 n/Scale: sign, integer digits, ".", two digits.
Format1f(n) ==
    (IF n < 0 THEN <<"-">> ELSE << >>) \o NatToStr(Cents(n) \div 100)
        \o <<".", DigitChar[((Cents(n) \div 10) % 10) + 1]>>

Format2f(n) ==
    (IF n < 0 THEN <<"-">> ELSE << >>) \o NatToStr(Cents(n) \div 100)
        \o <<".", DigitChar[((Cents(n) \div 10) % 10) + 1],
                  DigitChar[(Cents(n) % 10) + 1]>>

\* time.Now().Format(time.RFC1123) at t seconds past Mon, 02 Jan 2006
\* 15:04:00 UTC, for t < 60.
RFC1123(t) ==
    <<"Mon, 02 Jan 2006 15:04:", DigitChar[(t \div 10) + 1], DigitChar[(t % 10) + 1], " UTC">>

\* ------------------------------------------------------------------ handlers
\* A handler's return value: the ToolResponse's content blocks (each a text)
\* and the error (NoErr for nil).
NoResult == [blocks |-> << >>, err |-> NoErr]

\* NewToolResponse(NewTextContent(text)), nil
TextResponse(text) == [blocks |-> <<text>>, err |-> NoErr]

\* The hello handler.
Hello(submitter) ==
    TextResponse(<<"Hello, ">> \o submitter \o <<"! Welcome to the MCP Example.">>)

\* The bitcoin_price handler's default for an empty currency argument.
DefaultCurrencyNone(arg) == arg

DefaultCurrency(arg) == IF arg = << >> THEN <<"U", "S", "D">> ELSE arg

\* The bitcoin_price handler after getBitcoinPrice returned (price, err), the
\* clock reading t.
AfterGetBitcoinPriceHardFail(price, err, currency, t) ==
    IF err # NoErr
    THEN [blocks |-> << >>, err |-> err]
    ELSE TextResponse(<<"The current Bitcoin price is ">> \o Format2f(price)
                      \o <<" ">> \o currency \o <<" (as of ">> \o RFC1123(t) \o <<")">>)

AfterGetBitcoinPrice(price, err, currency, t) ==
    IF err # NoErr
    THEN TextResponse(<<"Error fetching Bitcoin price: ">> \o err)
    ELSE TextResponse(<<"The current Bitcoin price is ">> \o Format2f(price)
                      \o <<" ">> \o currency \o <<" (as of ">> \o RFC1123(t) \o <<")">>)


\* ------------------------------------------------------------------ inputs
\* Lower case of the letters the currency codes are written in.
LowerOf ==
    [A |-> "a", B |-> "b", C |-> "c", D |-> "d", E |-> "e", F |-> "f", G |-> "g",
     H |-> "h", J |-> "j", K |-> "k", N |-> "n", P |-> "p", R |-> "r", S |-> "s",
     U |-> "u", W |-> "w", Y |-> "y"]

\* The letters of each currency code, upper case.
CodeChars ==
    [USD |-> <<"U", "S", "D">>, EUR |-> <<"E", "U", "R">>, GBP |-> <<"G", "B", "P">>,
     JPY |-> <<"J", "P", "Y">>, AUD |-> <<"A", "U", "D">>, CAD |-> <<"C", "A", "D">>,
     CHF |-> <<"C", "H", "F">>, CNY |-> <<"C", "N", "Y">>, KRW |-> <<"K", "R", "W">>,
     RUB |-> <<"R", "U", "B">>]

ToLower(s) == [i \in 1..Len(s) |-> LowerOf[s[i]]]

\* Every casing of a code: each letter upper or lower case.
Casings(k) ==
    {s \in [1..3 -> {"A", "B", "C", "D", "E", "F", "G", "H", "J", "K", "N", "P", "R",
                     "S", "U", "W", "Y", "a", "b", "c", "d", "e", "f", "g", "h", "j",
                     "k", "n", "p", "r", "s", "u", "w", "y"}] :
        \A i \in 1..3 : s[i] \in {CodeChars[k][i], LowerOf[CodeChars[k][i]]}}

\* Strings that are no casing of a supported code.
OtherStrings ==
    {<<"B", "T", "C">>, <<"U", "S">>, <<"U", "S", "D", "T">>, <<"u", "s", "d", " ">>,
     <<"X", "Y", "Z">>}

\* The currency arguments a caller may send: empty, any casing of a supported
\* code, or something else.
CurrencyArgs == {<< >>} \cup UNION {Casings(k) : k \in Codes} \cup OtherStrings

SubmitterArgs == {<<"A", "d", "a">>, <<"B", "o", "b">>}

\* Catalogs the upstream may send, in 1/Scale units.
PriceA ==
    [USD |-> 17152032, EUR |-> 15676032, GBP |-> 13312255, JPY |-> 20480000,
     AUD |-> 768, CAD |-> 19200001, CHF |-> 12800096, CNY |-> 2560160,
     KRW |-> 21000000, RUB |-> 5120224]

PriceB ==
    [USD |-> 1, EUR |-> 255, GBP |-> 32, JPY |-> 96, AUD |-> -32, CAD |-> -1,
     CHF |-> 256, CNY |-> 25599, KRW |-> 0, RUB |-> 2557]

FieldsOf(prices) == [g \in Tags |-> JNum(prices[CHOOSE k \in Codes : JsonTag[k] = g])]

Docs ==
    {Doc("malformed", "absent", NoFields),
     Doc("array", "absent", NoFields),
     Doc("object", "absent", NoFields),
     Doc("object", "null", NoFields),
     Doc("object", "string", NoFields),
     Doc("object", "object", NoFields),
     Doc("object", "object", [NoFields EXCEPT !["usd"] = JNum(17152032)]),
     Doc("object", "object", [FieldsOf(PriceA) EXCEPT !["usd"] = JStr]),
     Doc("object", "object", [FieldsOf(PriceA) EXCEPT !["eur"] = JNull]),
     Doc("object", "object", FieldsOf(PriceA)),
     Doc("object", "object", FieldsOf(PriceB))}

\* What the upstream answers to one GET: a transport error (reqErr), or a
\* response with a status and a body stream whose read fails (readErr) or
\* yields doc.
Upstream(reqErr, status, readErr, doc) ==
    [reqErr |-> reqErr, status |-> status, readErr |-> readErr, doc |-> doc]
NoUpstream == Upstream("", 0, "", NoDoc)

Statuses == {200, 429, 500}

Upstreams ==
    {Upstream(e, 0, "", NoDoc) :
        e \in {"dial tcp: connect: connection refused",
               "context deadline exceeded (Client.Timeout exceeded while awaiting headers)"}}
    \cup {Upstream("", st, "unexpected EOF", NoDoc) : st \in Statuses}
    \cup {Upstream("", st, "", d) : st \in Statuses, d \in Docs}

\* The smaller input sets of the runs with overlapping calls.
FewCurrencyArgs == {<< >>, <<"e", "u", "r">>, <<"B", "T", "C">>}
FewSubmitterArgs == {<<"A", "d", "a">>}
FewUpstreams ==
    {Upstream("dial tcp: connect: connection refused", 0, "", NoDoc),
     Upstream("", 200, "", Doc("object", "object", FieldsOf(PriceA))),
     Upstream("", 200, "", Doc("object", "object", FieldsOf(PriceB)))}


\* ------------------------------------------------------------------ state
VARIABLES
    mainPc,         \* where main() stands
    registry,       \* the server's registered names, in registration order
    attempts,       \* every Register* call main made: its name and whether it succeeded
    serveCalled,    \* whether main called server.Serve()
    now,            \* the wall clock, in seconds
    call,           \* per call slot: the handler invocation's position and locals
    coinGeckoResp   \* per invocation: getBitcoinPrice's variable coinGeckoResp

vars == <<mainPc, registry, attempts, serveCalled, now, call, coinGeckoResp>>

IdleCall ==
    [pc |-> "idle", tool |-> "", arg |-> << >>, currency |-> << >>,
     up |-> NoUpstream, body |-> NoDoc, gets |-> 0, switched |-> FALSE,
     price |-> 0, err |-> NoErr, ts |-> -1, result |-> NoResult]

Init ==
    /\ mainPc = "register_hello"
    /\ registry = << >>
    /\ attempts = << >>
    /\ serveCalled = FALSE
    /\ now = 0
    /\ call = [c \in Calls |-> IdleCall]
    /\ coinGeckoResp = [c \in Calls |-> ZeroResp]

\* ------------------------------------------------------------------ main
\* Where main goes when a registration returned an error: log.Fatalf exits.
OnRegisterErrorContinue(next) == next

OnRegisterError(next) == "exited"

\* err := server.Register...(name, ...); if err != nil { log.Fatalf(...) }
\* The library decides whether the registration succeeds.
Register(at, name, next) ==
    /\ mainPc = at
    /\ \E ok \in BOOLEAN :
        /\ attempts' = Append(attempts, [name |-> name, ok |-> ok])
        /\ registry' = IF ok THEN Append(registry, name) ELSE registry
        /\ mainPc' = IF ok THEN next ELSE OnRegisterError(next)
    /\ UNCHANGED <<serveCalled, now, call, coinGeckoResp>>

RegisterHello == Register("register_hello", "hello", "register_bitcoin_price")

RegisterBitcoinPrice ==
    Register("register_bitcoin_price", "bitcoin_price", "register_prompt_test")

RegisterPromptTest == Register("register_prompt_test", "prompt_test", "register_resource")

RegisterResource == Register("register_resource", "test://resource", "serve")

\* err = server.Serve(); if err != nil { log.Fatalf(...) }; select {}
Serve ==
    /\ mainPc = "serve"
    /\ serveCalled' = TRUE
    /\ \E ok \in BOOLEAN : mainPc' = IF ok THEN "serving" ELSE "exited"
    /\ UNCHANGED <<registry, attempts, now, call, coinGeckoResp>>

\* The wall clock advances.
Tick ==
    /\ now < MaxClock
    /\ now' = now + 1
    /\ UNCHANGED <<mainPc, registry, attempts, serveCalled, call, coinGeckoResp>>

\* ------------------------------------------------------------------ calls
\* The server dispatches a call to a registered tool while it serves.
Dispatchable(c, tool, overlap) ==
    /\ mainPc = "serving"
    /\ \E i \in 1..Len(registry) : registry[i] = tool
    /\ call[c].pc = "idle"
    /\ overlap \/ \A d \in Calls : call[d].pc = "idle"

\* The hello handler, whole.
InvokeHello(c, submitters, overlap) ==
    /\ Dispatchable(c, "hello", overlap)
    /\ \E s \in submitters :
        call' = [call EXCEPT ![c] =
                    [IdleCall EXCEPT !.pc = "done", !.tool = "hello", !.arg = s,
                                     !.result = Hello(s)]]
    /\ UNCHANGED <<mainPc, registry, attempts, serveCalled, now, coinGeckoResp>>

\* The bitcoin_price handler up to its call of getBitcoinPrice(currency).
InvokeBitcoinPrice(c, currencies, overlap) ==
    /\ Dispatchable(c, "bitcoin_price", overlap)
    /\ \E a \in currencies :
        call' = [call EXCEPT ![c] =
                    [IdleCall EXCEPT !.pc = "get", !.tool = "bitcoin_price", !.arg = a,
                                     !.currency = DefaultCurrency(a)]]
    /\ UNCHANGED <<mainPc, registry, attempts, serveCalled, now, coinGeckoResp>>

\* getBitcoinPrice returns (price, err) to the handler, which builds its
\* response (reading the clock when it reports a price) and returns.
Returned(rec, price, err) ==
    [rec EXCEPT !.pc = "done", !.price = price, !.err = err,
                !.ts = IF err = NoErr THEN now ELSE -1,
                !.result = AfterGetBitcoinPrice(price, err, rec.currency, now)]

\* Where getBitcoinPrice goes after client.Get returned.
AfterClientGetRetry(reqErr) == IF reqErr # "" THEN "get" ELSE "readall"

AfterClientGet(reqErr) == IF reqErr # "" THEN "return" ELSE "readall"

\* resp, err := client.Get(url); if err != nil { return 0, fmt.Errorf(...) }
ClientGet(c, upstreams) ==
    /\ call[c].pc = "get"
    /\ \E o \in upstreams :
        LET rec == [call[c] EXCEPT !.gets = @ + 1, !.up = o]
            nxt == AfterClientGet(o.reqErr)
        IN  call' = [call EXCEPT ![c] =
                IF nxt = "return"
                THEN Returned(rec, 0, Errorf("error making request to CoinGecko API: ",
                                             <<o.reqErr>>))
                ELSE [rec EXCEPT !.pc = nxt]]
    /\ UNCHANGED <<mainPc, registry, attempts, serveCalled, now, coinGeckoResp>>

\* body, err := io.ReadAll(resp.Body); if err != nil { return 0, fmt.Errorf(...) }
ReadAll(c) ==
    /\ call[c].pc = "readall"
    /\ call' = [call EXCEPT ![c] =
            IF call[c].up.readErr # ""
            THEN Returned(call[c], 0, Errorf("error reading response body: ",
                                             <<call[c].up.readErr>>))
            ELSE [call[c] EXCEPT !.pc = "unmarshal", !.body = call[c].up.doc]]
    /\ UNCHANGED <<mainPc, registry, attempts, serveCalled, now, coinGeckoResp>>

\* The variable an invocation of getBitcoinPrice decodes into and reads its
\* price from: its own local coinGeckoResp.
CoinGeckoRespShared(c) == 1

CoinGeckoRespOf(c) == c

\* var coinGeckoResp CoinGeckoResponse; err = json.Unmarshal(body, &coinGeckoResp);
\* if err != nil { return 0, fmt.Errorf(...) }
JsonUnmarshal(c) ==
    /\ call[c].pc = "unmarshal"
    /\ LET r == Unmarshal(call[c].body)
       IN  /\ coinGeckoResp' = [coinGeckoResp EXCEPT ![CoinGeckoRespOf(c)] = r.val]
           /\ call' = [call EXCEPT ![c] =
                IF r.err # NoErr
                THEN Returned(call[c], 0, Errorf("error parsing JSON response: ", r.err))
                ELSE [call[c] EXCEPT !.pc = "switch"]]
    /\ UNCHANGED <<mainPc, registry, attempts, serveCalled, now>>

\* switch currency { ... }; return price, nil
SwitchCurrency(c) ==
    /\ call[c].pc = "switch"
    /\ LET s == Switch(call[c].currency, coinGeckoResp[CoinGeckoRespOf(c)])
       IN  call' = [call EXCEPT ![c] =
                Returned([call[c] EXCEPT !.switched = TRUE], s.price, s.err)]
    /\ UNCHANGED <<mainPc, registry, attempts, serveCalled, now, coinGeckoResp>>

\* The server sends the handler's response; the invocation is over.
Deliver(c) ==
    /\ call[c].pc = "done"
    /\ call' = [call EXCEPT ![c] = IdleCall]
    /\ coinGeckoResp' = [coinGeckoResp EXCEPT ![c] = ZeroResp]
    /\ UNCHANGED <<mainPc, registry, attempts, serveCalled, now>>

\* ------------------------------------------------------------------ specifications
Startup ==
    \/ RegisterHello
    \/ RegisterBitcoinPrice
    \/ RegisterPromptTest
    \/ RegisterResource
    \/ Serve
    \/ Tick

\* One call at a time, over every input.
Next ==
    \/ Startup
    \/ \E c \in Calls :
        \/ InvokeHello(c, SubmitterArgs, FALSE)
        \/ InvokeBitcoinPrice(c, CurrencyArgs, FALSE)
        \/ ClientGet(c, Upstreams)
        \/ ReadAll(c)
        \/ JsonUnmarshal(c)
        \/ SwitchCurrency(c)
        \/ Deliver(c)

Spec == Init /\ [][Next]_vars

\* Overlapping calls, over the smaller input sets.
NextConc ==
    \/ Startup
    \/ \E c \in Calls :
        \/ InvokeHello(c, FewSubmitterArgs, TRUE)
        \/ InvokeBitcoinPrice(c, FewCurrencyArgs, TRUE)
        \/ ClientGet(c, FewUpstreams)
        \/ ReadAll(c)
        \/ JsonUnmarshal(c)
        \/ SwitchCurrency(c)
        \/ Deliver(c)

SpecConc == Init /\ [][NextConc]_vars


\* ------------------------------------------------------------------ properties
\* A bitcoin_price invocation in slot c.
IsBitcoinPrice(c) == call[c].tool = "bitcoin_price"

\* A bitcoin_price invocation whose handler has returned.
Finished(c) == IsBitcoinPrice(c) /\ call[c].pc = "done"

\* The text of the response's first block.
Text(c) == call[c].result.blocks[1]

\* The code (if any) that s writes all in upper case or all in lower case.
UpperOrLowerOf(s) == {k \in Codes : s = CodeChars[k] \/ s = ToLower(CodeChars[k])}

IsDigit(ch) == ch \in {"0", "1", "2", "3", "4", "5", "6", "7", "8", "9"}

\* C1: once the switch of getBitcoinPrice has run on a currency that is a
\* supported code written all upper case or all lower case, the price returned
\* is that currency's field of the decoded catalog and the error is nil; on
\* any other string the error is "unsupported currency: <string>".
C1_SelectionReturnsField ==
    \A c \in Calls :
        call[c].switched =>
            IF UpperOrLowerOf(call[c].currency) # {}
            THEN \A k \in UpperOrLowerOf(call[c].currency) :
                    /\ call[c].err = NoErr
                    /\ call[c].price = coinGeckoResp[c].Bitcoin[k]
            ELSE /\ call[c].err = <<"unsupported currency: ">> \o call[c].currency
                 /\ call[c].price = 0

\* A lower-case "eur" has selected the EUR field of the first catalog.
C1_Witness ==
    \E c \in Calls :
        /\ call[c].switched
        /\ call[c].currency = <<"e", "u", "r">>
        /\ coinGeckoResp[c].Bitcoin = PriceA
        /\ call[c].price = 15676032
        /\ call[c].err = NoErr

\* What the bitcoin_price handler answers when it runs alone with the given
\* currency (after defaulting), upstream answer and clock reading.
RunAlone(currency, up, t) ==
    IF up.reqErr # ""
    THEN TextResponse(<<"Error fetching Bitcoin price: ",
                        "error making request to CoinGecko API: ", up.reqErr>>)
    ELSE IF up.readErr # ""
    THEN TextResponse(<<"Error fetching Bitcoin price: ",
                        "error reading response body: ", up.readErr>>)
    ELSE IF Unmarshal(up.doc).err # NoErr
    THEN TextResponse(<<"Error fetching Bitcoin price: ", "error parsing JSON response: ">>
                      \o Unmarshal(up.doc).err)
    ELSE LET s == Switch(currency, Unmarshal(up.doc).val)
         IN  IF s.err # NoErr
             THEN TextResponse(<<"Error fetching Bitcoin price: ">> \o s.err)
             ELSE TextResponse(<<"The current Bitcoin price is ">> \o Format2f(s.price)
                               \o <<" ">> \o currency \o <<" (as of ">> \o RFC1123(t)
                               \o <<")">>)

\* The clock readings a call's response may rest on: the one it took, or any
\* when it took none.
ClockReadings(c) == IF call[c].ts >= 0 THEN {call[c].ts} ELSE 0..MaxClock

\* C2: a finished bitcoin_price call whose currency argument was empty has
\* the response (text and nil error) that the argument "USD" gets from the
\* same upstream answer at the same clock reading (at any, when the call
\* read no clock).
C2_EmptyActsAsUSD ==
    \A c \in Calls :
        (Finished(c) /\ call[c].arg = << >>) =>
            \A t \in ClockReadings(c) :
                call[c].result = RunAlone(<<"U", "S", "D">>, call[c].up, t)

\* An empty argument has been answered with the USD price of the first catalog.
C2_Witness ==
    \E c \in Calls :
        /\ Finished(c)
        /\ call[c].arg = << >>
        /\ call[c].up.doc = Doc("object", "object", FieldsOf(PriceA))
        /\ SubSeq(Text(c), 1, 10) =
              <<"The current Bitcoin price is ", "6", "7", "0", "0", "0", ".", "1", "2", " ">>

\* Whether getBitcoinPrice has a reason to fail in slot c: the request, the
\* body read, the decoding or the currency.
HasFailure(c) ==
    \/ call[c].up.reqErr # ""
    \/ call[c].up.readErr # ""
    \/ call[c].up.doc.kind # "object"
    \/ call[c].up.doc.bitcoin = "string"
    \/ (call[c].up.doc.bitcoin = "object" /\ \E g \in Tags : call[c].up.doc.fields[g].t = "str")
    \/ UpperOrLowerOf(call[c].currency) = {}

\* C3: a finished bitcoin_price call always returns a nil error and exactly
\* one text block; when getBitcoinPrice failed (request, body read, parse or
\* unsupported currency) the text is "Error fetching Bitcoin price: " followed
\* by the failure's description.
C3_FailureIsTextResponse ==
    \A c \in Calls :
        Finished(c) =>
            /\ call[c].result.err = NoErr
            /\ Len(call[c].result.blocks) = 1
            /\ HasFailure(c) => call[c].err # NoErr
            /\ call[c].err # NoErr =>
                /\ Text(c) = <<"Error fetching Bitcoin price: ">> \o call[c].err
                /\ call[c].err[1] \in {"error making request to CoinGecko API: ",
                                      "error reading response body: ",
                                      "error parsing JSON response: ",
                                      "unsupported currency: "}

\* A malformed body has been answered with a parse-error text.
C3_Witness ==
    \E c \in Calls :
        /\ Finished(c)
        /\ call[c].up.doc.kind = "malformed"
        /\ call[c].result.err = NoErr
        /\ SubSeq(Text(c), 1, 2) =
              <<"Error fetching Bitcoin price: ", "error parsing JSON response: ">>

\* C4: a finished bitcoin_price call whose upstream answered with a non-2xx
\* status has failed in getBitcoinPrice and answers with the error text,
\* never with a price.
C4_NonSuccessStatusIsError ==
    \A c \in Calls :
        (Finished(c) /\ call[c].up.reqErr = "" /\ call[c].up.status \notin 200..299) =>
            /\ call[c].err # NoErr
            /\ Text(c)[1] = "Error fetching Bitcoin price: "

\* C5 as stated: the switch accepts every casing of a supported code and
\* returns that currency's field.
C5_AnyCasingAccepted ==
    \A c \in Calls : \A k \in Codes :
        (call[c].switched /\ call[c].currency \in Casings(k)) =>
            /\ call[c].err = NoErr
            /\ call[c].price = coinGeckoResp[c].Bitcoin[k]

\* C5 amended: of the casings of a supported code the switch accepts exactly
\* the all-upper-case and the all-lower-case one, returning that currency's
\* field; every mixed casing gets the "unsupported currency" error.
C5_UpperAndLowerOnly ==
    \A c \in Calls : \A k \in Codes :
        (call[c].switched /\ call[c].currency \in Casings(k)) =>
            IF call[c].currency \in {CodeChars[k], ToLower(CodeChars[k])}
            THEN call[c].err = NoErr /\ call[c].price = coinGeckoResp[c].Bitcoin[k]
            ELSE /\ call[c].err = <<"unsupported currency: ">> \o call[c].currency
                 /\ call[c].price = 0

\* The mixed casing "Usd" has been rejected.
C5_Witness ==
    \E c \in Calls :
        /\ call[c].switched
        /\ call[c].currency = <<"U", "s", "d">>
        /\ call[c].err = <<"unsupported currency: ", "U", "s", "d">>

\* The order main registers in.
RegistrationOrder == <<"hello", "bitcoin_price", "prompt_test", "test://resource">>

\* C6: main registers in the order hello, bitcoin_price, prompt_test,
\* test://resource; a failed registration is the last one attempted, the
\* process has exited and Serve was not called; Serve is called, and the
\* process serves, only with all four registered.
C6_RegisterAllThenServe ==
    /\ Len(attempts) <= 4
    /\ \A i \in 1..Len(attempts) :
        /\ attempts[i].name = RegistrationOrder[i]
        /\ ~attempts[i].ok =>
            (i = Len(attempts) /\ ~serveCalled /\ mainPc = "exited")
    /\ (serveCalled \/ mainPc = "serving") =>
        /\ Len(attempts) = 4
        /\ \A i \in 1..4 : attempts[i].ok
        /\ registry = RegistrationOrder

\* The second registration failed and the process is gone.
C6_Witness ==
    /\ Len(attempts) = 2
    /\ attempts[1].ok
    /\ ~attempts[2].ok
    /\ mainPc = "exited"
    /\ ~serveCalled


\* The place of the first " " fragment of a text after its first fragment.
FirstBlank(text) ==
    CHOOSE i \in 2..Len(text) : text[i] = " " /\ \A j \in 2..(i - 1) : text[j] # " "

\* A decimal number with exactly two digits after its point: an optional
\* "-", one or more digits, ".", two digits.
TwoDecimals(p) ==
    /\ Len(p) >= 4
    /\ p[Len(p) - 2] = "."
    /\ IsDigit(p[Len(p) - 1]) /\ IsDigit(p[Len(p)])
    /\ \A i \in 2..(Len(p) - 3) : IsDigit(p[i])
    /\ IsDigit(p[1]) \/ (p[1] = "-" /\ Len(p) >= 5)

\* C7: a bitcoin_price call that reports a price for a non-empty currency
\* argument answers "The current Bitcoin price is {price} {currency} (as of
\* {timestamp})": {price} has exactly two decimal digits and {currency} is
\* the argument exactly as the caller wrote it.
C7_SuccessTextForm ==
    \A c \in Calls :
        (Finished(c) /\ call[c].err = NoErr /\ call[c].arg # << >>) =>
            LET text == Text(c)
                i == FirstBlank(text)
                n == Len(call[c].arg)
            IN  /\ text[1] = "The current Bitcoin price is "
                /\ \E j \in 2..Len(text) : text[j] = " "
                /\ TwoDecimals(SubSeq(text, 2, i - 1))
                /\ SubSeq(text, i + 1, i + n) = call[c].arg
                /\ text[i + n + 1] = " (as of "
                /\ Len(text) > i + n + 2
                /\ text[Len(text)] = ")"
                /\ SubSeq(text, i + n + 2, Len(text) - 1) = RFC1123(call[c].ts)

\* A lower-case "gbp" has been answered with a price that rounds up into the
\* integer digits, the code left in lower case.
C7_Witness ==
    \E c \in Calls :
        /\ Finished(c)
        /\ call[c].arg = <<"g", "b", "p">>
        /\ call[c].price = 13312255
        /\ SubSeq(Text(c), 1, 13) =
              <<"The current Bitcoin price is ", "5", "2", "0", "0", "1", ".", "0", "0",
                " ", "g", "b", "p">>

\* Whether the fetch of slot c failed before the switch: the request, the
\* body read or the decoding.
FetchFailed(c) ==
    \/ call[c].up.reqErr # ""
    \/ call[c].up.readErr # ""
    \/ call[c].up.doc.kind \in {"malformed", "array"}
    \/ call[c].up.doc.bitcoin = "string"
    \/ (call[c].up.doc.bitcoin = "object" /\ \E g \in Tags : call[c].up.doc.fields[g].t = "str")

\* C8: a bitcoin_price call has issued no GET before client.Get and exactly
\* one from then on, whatever its currency and outcome (no retry); the switch
\* on the currency runs only after that GET; and a call whose fetch failed
\* ends without having run the switch, reporting the fetch failure and not
\* "unsupported currency".
C8_ExactlyOneGet ==
    \A c \in Calls :
        IsBitcoinPrice(c) =>
            /\ call[c].pc = "get" => call[c].gets = 0
            /\ call[c].pc \in {"readall", "unmarshal", "switch", "done"} => call[c].gets = 1
            /\ call[c].switched => (call[c].gets = 1 /\ call[c].pc = "done")
            /\ (call[c].pc = "done" /\ FetchFailed(c)) =>
                /\ ~call[c].switched
                /\ call[c].err # NoErr
                /\ call[c].err[1] # "unsupported currency: "

\* A call for an unsupported code whose request failed has cost one GET and
\* reports the request error.
C8_Witness ==
    \E c \in Calls :
        /\ Finished(c)
        /\ call[c].currency = <<"B", "T", "C">>
        /\ call[c].up.reqErr # ""
        /\ call[c].gets = 1
        /\ Text(c)[2] = "error making request to CoinGecko API: "

\* C9: under overlapping calls every finished call has the response it would
\* produce alone from its own argument, the upstream answer to its own GET
\* and its own clock reading; a call about to run the switch holds the catalog
\* decoded from its own body; and while the process serves the registry is
\* the four names registered at startup.
C9_CallsShareNothing ==
    /\ \A c \in Calls :
        /\ (call[c].pc = "done" /\ call[c].tool = "hello") =>
              call[c].result = TextResponse(<<"Hello, ">> \o call[c].arg
                                            \o <<"! Welcome to the MCP Example.">>)
        /\ Finished(c) =>
              \A t \in ClockReadings(c) :
                  call[c].result = RunAlone(IF call[c].arg = << >> THEN <<"U", "S", "D">>
                                            ELSE call[c].arg,
                                            call[c].up, t)
        /\ (IsBitcoinPrice(c) /\ call[c].pc = "switch") =>
              coinGeckoResp[c] = Unmarshal(call[c].up.doc).val
    /\ mainPc = "serving" => registry = RegistrationOrder

\* Two bitcoin_price calls overlap: one has decoded the first catalog and not
\* yet run its switch while the other has finished on the second catalog.
C9_Witness ==
    \E c, d \in Calls :
        /\ c # d
        /\ IsBitcoinPrice(c) /\ call[c].pc = "switch"
        /\ coinGeckoResp[c].Bitcoin = PriceA
        /\ Finished(d) /\ call[d].switched
        /\ coinGeckoResp[d].Bitcoin = PriceB

\* Whether a body decodes into the catalog shape.
ParsesIntoCatalog(doc) ==
    /\ doc.kind = "object"
    /\ doc.bitcoin # "string"
    /\ doc.bitcoin = "object" => \A g \in Tags : doc.fields[g].t # "str"

\* Whether a body carries no value for code k: no "bitcoin" object, or in it
\* no (or a null) value at k's key.
CarriesNoValue(doc, k) ==
    \/ doc.bitcoin \in {"absent", "null"}
    \/ doc.fields[JsonTag[k]].t \in {"absent", "null"}

\* C10: when the body read decodes into the catalog shape but carries no
\* value for the requested supported currency, getBitcoinPrice returns price 0
\* and a nil error and the handler answers "The current Bitcoin price is 0.00
\* {currency} ..."; an error is returned only after a request, body-read or
\* parse failure or for an unsupported currency.
C10_MissingValueIsZeroPrice ==
    \A c \in Calls :
        Finished(c) =>
            /\ \A k \in UpperOrLowerOf(call[c].currency) :
                (/\ call[c].up.reqErr = ""
                 /\ call[c].up.readErr = ""
                 /\ ParsesIntoCatalog(call[c].up.doc)
                 /\ CarriesNoValue(call[c].up.doc, k)) =>
                    /\ call[c].price = 0
                    /\ call[c].err = NoErr
                    /\ SubSeq(Text(c), 1, 6) =
                          <<"The current Bitcoin price is ", "0", ".", "0", "0", " ">>
                    /\ SubSeq(Text(c), 7, 9) = call[c].currency
            /\ call[c].err # NoErr =>
                \/ call[c].up.reqErr # ""
                \/ call[c].up.readErr # ""
                \/ ~ParsesIntoCatalog(call[c].up.doc)
                \/ UpperOrLowerOf(call[c].currency) = {}

\* A body that is an object without "bitcoin" has been answered with the
\* price 0.00 for "USD".
C10_Witness ==
    \E c \in Calls :
        /\ Finished(c)
        /\ call[c].currency = <<"U", "S", "D">>
        /\ call[c].up.doc = Doc("object", "absent", NoFields)
        /\ call[c].err = NoErr
        /\ SubSeq(Text(c), 1, 9) =
              <<"The current Bitcoin price is ", "0", ".", "0", "0", " ", "U", "S", "D">>

=============================================================================
